---- MODULE Spec2Model ----
(***************************************************************************)
(* provizio_dds: lifecycle of the domain participant handle, of the        *)
(* publisher_handle and subscriber_handle endpoints, and of the listener   *)
(* bridges that turn the middleware's match / data-available events into   *)
(* user callbacks.                                                         *)
(*                                                                         *)
(* The middleware (Fast DDS) is the environment: its create_* calls        *)
(* succeed or return nullptr, it raises match events once a writer/reader  *)
(* with a listener is live, and it raises data-available notifications.    *)
(***************************************************************************)
EXTENDS Integers, Sequences, FiniteSets, TLC

\* ---------------------------------------------------------------- bounds
MaxPeers == 2       \* peers the middleware may have matched with one endpoint
MaxEvents == 4      \* match events recorded per endpoint in MatchSpec
MaxSamples == 2     \* publish calls made in DataSpec and PublishSpec
MaxExtras == 1      \* notifications the middleware raises for no data in DataSpec

\* ---------------------------------------------------------------- values
NULL == "nullptr"
PTR == "ptr"
Pointers == {NULL, PTR}
NoCallback == [matched |-> "none"]
NoFault == [by |-> "none", at |-> "none"]

VARIABLES
    participant,    \* the factory's participant: "none" | "alive" | "deleted"
    handle,         \* the shared_ptr<DomainParticipant>: ptr, use_count, caller, deleter_calls,
                    \* and what the create_participant calls behind it returned
    pub,            \* the publisher_handle object: pc, ret and its members
    sub,            \* the subscriber_handle object: pc, ret and its members
    sub_copy,       \* a subscriber_handle copy-constructed from sub: pc and its members
    mw,             \* middleware entities created for each endpoint
    calls,          \* per endpoint, the middleware / member operations issued so far
    count,          \* per endpoint, the middleware's current matched-peer count
    notified,       \* per endpoint, the last match callback invoked and what it saw
    fault,          \* where the process faulted (a null dereference), if it did
    events,         \* per endpoint, the match events <<count, change>> raised so far
    fired,          \* per endpoint, the match callbacks invoked: event index and value
    written,        \* samples whose write the middleware reported successful
    inflight,       \* samples on their way to the reader
    history,        \* the reader's buffered samples, oldest first
    pending,        \* data-available notifications raised and not yet handled
    extras,         \* notifications raised for a sample without data or for none
    takes,          \* the take_next_sample calls the data listener made and their outcomes
    received,       \* the payloads the data callback was invoked with
    published       \* per publish call, what write returned and what publish returned

matchLog == <<events, fired>>
dataVars == <<written, inflight, history, pending, extras, takes, received, published>>
vars == <<participant, handle, pub, sub, sub_copy, mw, calls, count, notified, fault,
          events, fired, written, inflight, history, pending, extras, takes, received,
          published>>

Endpoints == {"pub", "sub"}

\* ------------------------------------------------------ shared_ptr handle
\* Mutant: the endpoint keeps the pointer without sharing ownership.
CopyHandle_unowned(h) == h

CopyHandle(h) == [h EXCEPT !.use_count = @ + 1]

\* Releasing one owner; the last one invokes the deleter (delete_participant)
\* with the stored pointer.
ReleaseHandle(h) ==
    LET n == h.use_count - 1
    IN [h EXCEPT !.use_count = n,
                 !.deleter_calls = IF n = 0 THEN Append(@, h.ptr) ELSE @]

\* Mutant: the participant is deleted as soon as any owner lets go.
delete_participant_any_release(h, p) ==
    IF h.ptr # NULL THEN "deleted" ELSE p

\* delete_participant as the deleter: the factory deletes the participant.
delete_participant(h, p) ==
    IF h.use_count = 1 /\ h.ptr # NULL THEN "deleted" ELSE p

NoHandle ==
    [ptr |-> NULL, use_count |-> 0, caller |-> FALSE, deleter_calls |-> <<>>,
     created |-> <<>>]

\* Mutant: a failed create_participant is tried once more.
make_domain_participant_retrying ==
    /\ fault = NoFault
    /\ participant = "none"
    /\ handle = NoHandle
    /\ \E p \in Pointers, q \in Pointers :
        LET r == IF p = NULL THEN q ELSE p
        IN /\ participant' = IF r = NULL THEN "none" ELSE "alive"
           /\ handle' = [ptr |-> r, use_count |-> 1, caller |-> TRUE, deleter_calls |-> <<>>,
                         created |-> IF p = NULL THEN <<p, q>> ELSE <<p>>]
    /\ UNCHANGED <<pub, sub, mw, calls, count, notified, fault, matchLog, dataVars, sub_copy>>

\* make_domain_participant: one create_participant call, whose result (a
\* participant or nullptr) is wrapped with the deleter and returned.
make_domain_participant ==
    /\ fault = NoFault
    /\ participant = "none"
    /\ handle = NoHandle
    /\ \E p \in Pointers :
        /\ participant' = IF p = NULL THEN "none" ELSE "alive"
        /\ handle' = [ptr |-> p, use_count |-> 1, caller |-> TRUE, deleter_calls |-> <<>>,
                      created |-> <<p>>]
    /\ UNCHANGED <<pub, sub, mw, calls, count, notified, fault, matchLog, dataVars, sub_copy>>

\* The caller drops the shared_ptr it holds.
CallerRelease ==
    /\ fault = NoFault
    /\ handle.caller
    /\ handle' = [ReleaseHandle(handle) EXCEPT !.caller = FALSE]
    /\ participant' = delete_participant(handle, participant)
    /\ UNCHANGED <<pub, sub, mw, calls, count, notified, fault, matchLog, dataVars, sub_copy>>

\* ------------------------------------------------------------ helpers
MwNone ==
    [topic |-> "none", container |-> "none", endpoint |-> "none", listener |-> FALSE,
     reliability |-> "none"]
ReliabilityQosPolicyKind == {"RELIABLE_RELIABILITY_QOS", "BEST_EFFORT_RELIABILITY_QOS"}

Call(op, on, arg) == [op |-> op, on |-> on, arg |-> arg]

Log(e, c) == calls' = [calls EXCEPT ![e] = Append(@, c)]

\* Calling a member function through a null pointer is undefined behaviour:
\* the process faults, or the call goes through and yields nothing.
Fault(e, op) ==
    /\ fault' = [by |-> e, at |-> op]
    /\ UNCHANGED <<participant, handle, pub, sub, mw, calls, count, notified, matchLog, dataVars, sub_copy>>

\* ------------------------------------------------------ publisher_handle
PubUnborn ==
    [pc |-> "unborn", ret |-> NULL, reliability_kind |-> "none",
     domain_participant |-> "empty", on_has_subscriber_changed_function |-> FALSE, listener |-> NULL,
     topic |-> NULL, publisher |-> NULL, data_writer |-> NULL]

\* Mutant: the constructor without a callback builds a listener all the same.
make_publisher_always_listening ==
    /\ fault = NoFault
    /\ pub.pc = "unborn"
    /\ handle.caller
    /\ \E cb \in BOOLEAN, mode \in {"copy", "move"}, rk \in ReliabilityQosPolicyKind :
        /\ handle' = IF mode = "copy" THEN CopyHandle(handle)
                     ELSE [handle EXCEPT !.caller = FALSE]
        /\ pub' = [pub EXCEPT !.pc = "register_type",
                              !.reliability_kind = rk,
                              !.domain_participant = "held",
                              !.on_has_subscriber_changed_function = cb,
                              !.listener = PTR]
    /\ UNCHANGED <<participant, sub, mw, calls, count, notified, fault, matchLog, dataVars, sub_copy>>

\* make_publisher: the caller passes its shared_ptr by copy or by move; the
\* delegating constructors build the data_writer_listener only when a callback
\* is given; the member initialisers run.
make_publisher ==
    /\ fault = NoFault
    /\ pub.pc = "unborn"
    /\ handle.caller
    /\ \E cb \in BOOLEAN, mode \in {"copy", "move"}, rk \in ReliabilityQosPolicyKind :
        /\ handle' = IF mode = "copy" THEN CopyHandle(handle)
                     ELSE [handle EXCEPT !.caller = FALSE]
        /\ pub' = [pub EXCEPT !.pc = "register_type",
                              !.reliability_kind = rk,
                              !.domain_participant = "held",
                              !.on_has_subscriber_changed_function = cb,
                              !.listener = IF cb THEN PTR ELSE NULL]
    /\ UNCHANGED <<participant, sub, mw, calls, count, notified, fault, matchLog, dataVars, sub_copy>>

\* type_support.register_type(this->domain_participant.get())
pub_register_type ==
    /\ fault = NoFault
    /\ pub.pc = "register_type"
    /\ \/ /\ handle.ptr = NULL
          /\ Fault("pub", "register_type")
       \/ /\ Log("pub", Call("register_type", handle.ptr, PTR))
          /\ pub' = [pub EXCEPT !.pc = "create_topic"]
          /\ UNCHANGED <<participant, handle, sub, mw, count, notified, fault, matchLog, dataVars, sub_copy>>

\* topic = this->domain_participant->create_topic(...)
pub_create_topic ==
    /\ fault = NoFault
    /\ pub.pc = "create_topic"
    /\ \/ /\ handle.ptr = NULL
          /\ Fault("pub", "create_topic")
       \/ /\ \E r \in (IF handle.ptr = NULL THEN {NULL} ELSE Pointers) :
                /\ pub' = [pub EXCEPT !.pc = "create_publisher", !.topic = r]
                /\ mw' = [mw EXCEPT !["pub"].topic = IF r = NULL THEN @ ELSE "alive"]
          /\ Log("pub", Call("create_topic", handle.ptr, PTR))
          /\ UNCHANGED <<participant, handle, sub, count, notified, fault, matchLog, dataVars, sub_copy>>

\* publisher = this->domain_participant->create_publisher(publisher_qos): issued
\* whatever create_topic returned.
pub_create_publisher ==
    /\ fault = NoFault
    /\ pub.pc = "create_publisher"
    /\ \/ /\ handle.ptr = NULL
          /\ Fault("pub", "create_publisher")
       \/ /\ \E r \in (IF handle.ptr = NULL THEN {NULL} ELSE Pointers) :
                /\ pub' = [pub EXCEPT !.pc = "create_datawriter", !.publisher = r]
                /\ mw' = [mw EXCEPT !["pub"].container = IF r = NULL THEN @ ELSE "alive"]
          /\ Log("pub", Call("create_publisher", handle.ptr, PTR))
          /\ UNCHANGED <<participant, handle, sub, count, notified, fault, matchLog, dataVars, sub_copy>>

\* Mutant: the writer is created with the default QoS, reliability_kind unused.
pub_create_datawriter_default_qos ==
    /\ fault = NoFault
    /\ pub.pc = "create_datawriter"
    /\ \/ /\ pub.publisher = NULL
          /\ Fault("pub", "create_datawriter")
       \/ /\ \E r \in (IF pub.publisher = NULL \/ pub.topic = NULL THEN {NULL} ELSE Pointers) :
                /\ pub' = [pub EXCEPT !.pc = "assign_data_writer", !.ret = r]
                /\ mw' = [mw EXCEPT !["pub"].endpoint = IF r = NULL THEN @ ELSE "alive",
                                    !["pub"].reliability =
                                        IF r = NULL THEN @ ELSE "RELIABLE_RELIABILITY_QOS",
                                    !["pub"].listener = (r # NULL /\ pub.listener # NULL)]
          /\ Log("pub", Call("create_datawriter", pub.publisher, pub.topic))
          /\ UNCHANGED <<participant, handle, sub, count, notified, fault, matchLog, dataVars, sub_copy>>

\* publisher->create_datawriter(topic, datawriter_qos, this->listener.get()):
\* issued whatever the two steps before returned. The middleware refuses an
\* invalid topic. From the moment the call creates the writer, the writer is
\* live with the listener attached; the returned pointer is not yet stored.
pub_create_datawriter ==
    /\ fault = NoFault
    /\ pub.pc = "create_datawriter"
    /\ \/ /\ pub.publisher = NULL
          /\ Fault("pub", "create_datawriter")
       \/ /\ \E r \in (IF pub.publisher = NULL \/ pub.topic = NULL THEN {NULL} ELSE Pointers) :
                /\ pub' = [pub EXCEPT !.pc = "assign_data_writer", !.ret = r]
                /\ mw' = [mw EXCEPT !["pub"].endpoint = IF r = NULL THEN @ ELSE "alive",
                                    !["pub"].reliability =
                                        IF r = NULL THEN @ ELSE pub.reliability_kind,
                                    !["pub"].listener = (r # NULL /\ pub.listener # NULL)]
          /\ Log("pub", Call("create_datawriter", pub.publisher, pub.topic))
          /\ UNCHANGED <<participant, handle, sub, count, notified, fault, matchLog, dataVars, sub_copy>>

\* data_writer = <the pointer create_datawriter returned>; the constructor returns.
pub_assign_data_writer ==
    /\ fault = NoFault
    /\ pub.pc = "assign_data_writer"
    /\ pub' = [pub EXCEPT !.pc = "live", !.data_writer = pub.ret, !.ret = NULL]
    /\ UNCHANGED <<participant, handle, sub, mw, calls, count, notified, fault, matchLog, dataVars, sub_copy>>

\* The last shared_ptr<publisher_handle> is dropped: ~publisher_handle starts.
pub_destroy ==
    /\ fault = NoFault
    /\ pub.pc = "live"
    /\ pub' = [pub EXCEPT !.pc = "delete_datawriter"]
    /\ UNCHANGED <<participant, handle, sub, mw, calls, count, notified, fault, matchLog, dataVars, sub_copy>>

\* Mutant: the container is deleted before the writer.
pub_delete_datawriter_swapped ==
    /\ fault = NoFault
    /\ pub.pc = "delete_datawriter"
    /\ pub' = [pub EXCEPT !.pc = "delete_topic"]
    /\ calls' = [calls EXCEPT !["pub"] =
                    @ \o (IF pub.publisher # NULL
                          THEN <<Call("delete_publisher", handle.ptr, pub.publisher)>>
                          ELSE <<>>)
                      \o (IF pub.data_writer # NULL
                          THEN <<Call("delete_datawriter", pub.publisher, pub.data_writer)>>
                          ELSE <<>>)]
    /\ mw' = [mw EXCEPT !["pub"].endpoint = IF pub.data_writer # NULL THEN "deleted" ELSE @,
                        !["pub"].listener = FALSE,
                        !["pub"].container = IF pub.publisher # NULL THEN "deleted" ELSE @]
    /\ UNCHANGED <<participant, handle, sub, count, notified, fault, matchLog, dataVars, sub_copy>>

\* Mutant: the writer is deleted without the null check.
pub_delete_datawriter_unchecked ==
    /\ fault = NoFault
    /\ pub.pc = "delete_datawriter"
    /\ IF pub.publisher = NULL
       THEN Fault("pub", "delete_datawriter")
       ELSE /\ pub' = [pub EXCEPT !.pc = "delete_publisher"]
            /\ Log("pub", Call("delete_datawriter", pub.publisher, pub.data_writer))
            /\ mw' = [mw EXCEPT !["pub"].endpoint = IF @ = "alive" THEN "deleted" ELSE @,
                                !["pub"].listener = FALSE]
            /\ UNCHANGED <<participant, handle, sub, count, notified, fault, matchLog, dataVars, sub_copy>>

\* if (data_writer != nullptr) publisher->delete_datawriter(data_writer);
pub_delete_datawriter ==
    /\ fault = NoFault
    /\ pub.pc = "delete_datawriter"
    /\ IF pub.data_writer # NULL /\ pub.publisher = NULL
       THEN Fault("pub", "delete_datawriter")
       ELSE /\ pub' = [pub EXCEPT !.pc = "delete_publisher"]
            /\ IF pub.data_writer # NULL
               THEN /\ Log("pub", Call("delete_datawriter", pub.publisher, pub.data_writer))
                    /\ mw' = [mw EXCEPT !["pub"].endpoint = "deleted", !["pub"].listener = FALSE]
               ELSE UNCHANGED <<calls, mw>>
            /\ UNCHANGED <<participant, handle, sub, count, notified, fault, matchLog, dataVars, sub_copy>>

\* if (publisher != nullptr) domain_participant->delete_publisher(publisher);
pub_delete_publisher ==
    /\ fault = NoFault
    /\ pub.pc = "delete_publisher"
    /\ IF pub.publisher # NULL /\ handle.ptr = NULL
       THEN Fault("pub", "delete_publisher")
       ELSE /\ pub' = [pub EXCEPT !.pc = "delete_topic"]
            /\ IF pub.publisher # NULL
               THEN /\ Log("pub", Call("delete_publisher", handle.ptr, pub.publisher))
                    /\ mw' = [mw EXCEPT !["pub"].container = "deleted"]
               ELSE UNCHANGED <<calls, mw>>
            /\ UNCHANGED <<participant, handle, sub, count, notified, fault, matchLog, dataVars, sub_copy>>

\* Mutant: the destructor leaves the topic behind.
pub_delete_topic_leaking ==
    /\ fault = NoFault
    /\ pub.pc = "delete_topic"
    /\ pub' = [pub EXCEPT !.pc = "release_listener"]
    /\ UNCHANGED <<participant, handle, sub, mw, calls, count, notified, fault, matchLog, dataVars, sub_copy>>

\* if (topic != nullptr) domain_participant->delete_topic(topic);
pub_delete_topic ==
    /\ fault = NoFault
    /\ pub.pc = "delete_topic"
    /\ IF pub.topic # NULL /\ handle.ptr = NULL
       THEN Fault("pub", "delete_topic")
       ELSE /\ pub' = [pub EXCEPT !.pc = "release_listener"]
            /\ IF pub.topic # NULL
               THEN /\ Log("pub", Call("delete_topic", handle.ptr, pub.topic))
                    /\ mw' = [mw EXCEPT !["pub"].topic = "deleted"]
               ELSE UNCHANGED <<calls, mw>>
            /\ UNCHANGED <<participant, handle, sub, count, notified, fault, matchLog, dataVars, sub_copy>>

\* After the destructor body the members go in reverse declaration order:
\* data_writer, publisher, topic (raw pointers), then the unique_ptr listener ...
pub_release_listener ==
    /\ fault = NoFault
    /\ pub.pc = "release_listener"
    /\ pub' = [pub EXCEPT !.pc = "release_participant",
                          !.listener = IF @ = PTR THEN "freed" ELSE @]
    /\ Log("pub", Call("release_listener", PTR, pub.listener))
    /\ UNCHANGED <<participant, handle, sub, mw, count, notified, fault, matchLog, dataVars, sub_copy>>

\* ... and last the shared_ptr domain_participant, declared first.
pub_release_participant ==
    /\ fault = NoFault
    /\ pub.pc = "release_participant"
    /\ pub' = [pub EXCEPT !.pc = "done", !.domain_participant = "empty"]
    /\ handle' = ReleaseHandle(handle)
    /\ participant' = delete_participant(handle, participant)
    /\ Log("pub", Call("release_participant", PTR, handle.ptr))
    /\ UNCHANGED <<sub, mw, count, notified, fault, matchLog, dataVars, sub_copy>>

\* ----------------------------------------------------- subscriber_handle
SubUnborn ==
    [pc |-> "unborn", ret |-> NULL, reliability_kind |-> "none",
     domain_participant |-> "empty", on_has_publisher_changed_function |-> FALSE, data_listener |-> NULL,
     topic |-> NULL, subscriber |-> NULL, data_reader |-> NULL]

\* make_subscriber: builds the listener (on_data_function_data_listener, or
\* functional_data_listener when a match callback is given) as a shared_ptr
\* that only the subscriber_handle keeps; the member initialisers run.
make_subscriber ==
    /\ fault = NoFault
    /\ sub.pc = "unborn"
    /\ handle.caller
    /\ \E cb \in BOOLEAN, mode \in {"copy", "move"}, rk \in ReliabilityQosPolicyKind :
        /\ handle' = IF mode = "copy" THEN CopyHandle(handle)
                     ELSE [handle EXCEPT !.caller = FALSE]
        /\ sub' = [sub EXCEPT !.pc = "register_type",
                              !.reliability_kind = rk,
                              !.domain_participant = "held",
                              !.on_has_publisher_changed_function = cb,
                              !.data_listener = PTR]
    /\ UNCHANGED <<participant, pub, mw, calls, count, notified, fault, matchLog, dataVars, sub_copy>>

\* type_support.register_type(this->domain_participant.get())
sub_register_type ==
    /\ fault = NoFault
    /\ sub.pc = "register_type"
    /\ \/ /\ handle.ptr = NULL
          /\ Fault("sub", "register_type")
       \/ /\ Log("sub", Call("register_type", handle.ptr, PTR))
          /\ sub' = [sub EXCEPT !.pc = "create_topic"]
          /\ UNCHANGED <<participant, handle, pub, mw, count, notified, fault, matchLog, dataVars, sub_copy>>

\* topic = this->domain_participant->create_topic(...)
sub_create_topic ==
    /\ fault = NoFault
    /\ sub.pc = "create_topic"
    /\ \/ /\ handle.ptr = NULL
          /\ Fault("sub", "create_topic")
       \/ /\ \E r \in (IF handle.ptr = NULL THEN {NULL} ELSE Pointers) :
                /\ sub' = [sub EXCEPT !.pc = "create_subscriber", !.topic = r]
                /\ mw' = [mw EXCEPT !["sub"].topic = IF r = NULL THEN @ ELSE "alive"]
          /\ Log("sub", Call("create_topic", handle.ptr, PTR))
          /\ UNCHANGED <<participant, handle, pub, count, notified, fault, matchLog, dataVars, sub_copy>>

\* subscriber = this->domain_participant->create_subscriber(subscriber_qos)
sub_create_subscriber ==
    /\ fault = NoFault
    /\ sub.pc = "create_subscriber"
    /\ \/ /\ handle.ptr = NULL
          /\ Fault("sub", "create_subscriber")
       \/ /\ \E r \in (IF handle.ptr = NULL THEN {NULL} ELSE Pointers) :
                /\ sub' = [sub EXCEPT !.pc = "create_datareader", !.subscriber = r]
                /\ mw' = [mw EXCEPT !["sub"].container = IF r = NULL THEN @ ELSE "alive"]
          /\ Log("sub", Call("create_subscriber", handle.ptr, PTR))
          /\ UNCHANGED <<participant, handle, pub, count, notified, fault, matchLog, dataVars, sub_copy>>

\* subscriber->create_datareader(topic, datareader_qos, this->data_listener.get())
sub_create_datareader ==
    /\ fault = NoFault
    /\ sub.pc = "create_datareader"
    /\ \/ /\ sub.subscriber = NULL
          /\ Fault("sub", "create_datareader")
       \/ /\ \E r \in (IF sub.subscriber = NULL \/ sub.topic = NULL THEN {NULL} ELSE Pointers) :
                /\ sub' = [sub EXCEPT !.pc = "assign_data_reader", !.ret = r]
                /\ mw' = [mw EXCEPT !["sub"].endpoint = IF r = NULL THEN @ ELSE "alive",
                                    !["sub"].reliability =
                                        IF r = NULL THEN @ ELSE sub.reliability_kind,
                                    !["sub"].listener = (r # NULL /\ sub.data_listener # NULL)]
          /\ Log("sub", Call("create_datareader", sub.subscriber, sub.topic))
          /\ UNCHANGED <<participant, handle, pub, count, notified, fault, matchLog, dataVars, sub_copy>>

\* data_reader = <the pointer create_datareader returned>; the constructor returns.
sub_assign_data_reader ==
    /\ fault = NoFault
    /\ sub.pc = "assign_data_reader"
    /\ sub' = [sub EXCEPT !.pc = "live", !.data_reader = sub.ret, !.ret = NULL]
    /\ UNCHANGED <<participant, handle, pub, mw, calls, count, notified, fault, matchLog, dataVars, sub_copy>>

\* A pointer to an entity that another subscriber_handle object holding the
\* same pointer has deleted already: using it is undefined behaviour (the
\* process faults, or the middleware takes the call).
Stale(entity) == mw["sub"][entity] = "deleted"

\* Mutant: the destructor resets data_listener before deleting the reader.
sub_destroy_resets_listener ==
    /\ fault = NoFault
    /\ sub.pc = "live"
    /\ sub' = [sub EXCEPT !.pc = "delete_datareader",
                          !.data_listener = IF @ = PTR THEN "freed" ELSE @]
    /\ UNCHANGED <<participant, handle, pub, mw, calls, count, notified, fault, matchLog, dataVars, sub_copy>>

\* The last shared_ptr<subscriber_handle> is dropped: ~subscriber_handle starts.
sub_destroy ==
    /\ fault = NoFault
    /\ sub.pc = "live"
    /\ sub' = [sub EXCEPT !.pc = "delete_datareader"]
    /\ UNCHANGED <<participant, handle, pub, mw, calls, count, notified, fault, matchLog, dataVars, sub_copy>>

\* Mutant: the participant reference is dropped before the deletions.
sub_delete_datareader_after_release ==
    /\ fault = NoFault
    /\ sub.pc = "delete_datareader"
    /\ sub' = [sub EXCEPT !.pc = "delete_subscriber"]
    /\ calls' = [calls EXCEPT !["sub"] =
                    @ \o <<Call("release_participant", PTR, handle.ptr)>>
                      \o (IF sub.data_reader # NULL
                          THEN <<Call("delete_datareader", sub.subscriber, sub.data_reader)>>
                          ELSE <<>>)]
    /\ mw' = [mw EXCEPT !["sub"].endpoint = IF sub.data_reader # NULL THEN "deleted" ELSE @,
                        !["sub"].listener = FALSE]
    /\ UNCHANGED <<participant, handle, pub, count, notified, fault, matchLog, dataVars, sub_copy>>

\* if (data_reader != nullptr) subscriber->delete_datareader(data_reader);
sub_delete_datareader ==
    /\ fault = NoFault
    /\ sub.pc = "delete_datareader"
    /\ \/ /\ sub.data_reader # NULL
          /\ sub.subscriber = NULL \/ Stale("container") \/ Stale("endpoint")
          /\ Fault("sub", "delete_datareader")
       \/ /\ ~(sub.data_reader # NULL /\ sub.subscriber = NULL)
          /\ sub' = [sub EXCEPT !.pc = "delete_subscriber"]
          /\ IF sub.data_reader # NULL
             THEN /\ Log("sub", Call("delete_datareader", sub.subscriber, sub.data_reader))
                  /\ mw' = [mw EXCEPT !["sub"].endpoint = "deleted", !["sub"].listener = FALSE]
             ELSE UNCHANGED <<calls, mw>>
          /\ UNCHANGED <<participant, handle, pub, count, notified, fault, matchLog, dataVars, sub_copy>>

\* if (subscriber != nullptr) domain_participant->delete_subscriber(subscriber);
sub_delete_subscriber ==
    /\ fault = NoFault
    /\ sub.pc = "delete_subscriber"
    /\ \/ /\ sub.subscriber # NULL
          /\ handle.ptr = NULL \/ Stale("container")
          /\ Fault("sub", "delete_subscriber")
       \/ /\ ~(sub.subscriber # NULL /\ handle.ptr = NULL)
          /\ sub' = [sub EXCEPT !.pc = "delete_topic"]
          /\ IF sub.subscriber # NULL
             THEN /\ Log("sub", Call("delete_subscriber", handle.ptr, sub.subscriber))
                  /\ mw' = [mw EXCEPT !["sub"].container = "deleted"]
             ELSE UNCHANGED <<calls, mw>>
          /\ UNCHANGED <<participant, handle, pub, count, notified, fault, matchLog, dataVars, sub_copy>>

\* if (topic != nullptr) domain_participant->delete_topic(topic);
sub_delete_topic ==
    /\ fault = NoFault
    /\ sub.pc = "delete_topic"
    /\ \/ /\ sub.topic # NULL
          /\ handle.ptr = NULL \/ Stale("topic")
          /\ Fault("sub", "delete_topic")
       \/ /\ ~(sub.topic # NULL /\ handle.ptr = NULL)
          /\ sub' = [sub EXCEPT !.pc = "release_listener"]
          /\ IF sub.topic # NULL
             THEN /\ Log("sub", Call("delete_topic", handle.ptr, sub.topic))
                  /\ mw' = [mw EXCEPT !["sub"].topic = "deleted"]
             ELSE UNCHANGED <<calls, mw>>
          /\ UNCHANGED <<participant, handle, pub, count, notified, fault, matchLog, dataVars, sub_copy>>

\* Members go in reverse declaration order: data_reader, subscriber, topic
\* (raw pointers), then the shared_ptr data_listener ...
sub_release_listener ==
    /\ fault = NoFault
    /\ sub.pc = "release_listener"
    /\ sub' = [sub EXCEPT !.pc = "release_participant",
                          !.data_listener = IF @ = PTR THEN "freed" ELSE @]
    /\ Log("sub", Call("release_listener", PTR, sub.data_listener))
    /\ UNCHANGED <<participant, handle, pub, mw, count, notified, fault, matchLog, dataVars, sub_copy>>

\* ... and last the shared_ptr domain_participant, declared first.
sub_release_participant ==
    /\ fault = NoFault
    /\ sub.pc = "release_participant"
    /\ sub' = [sub EXCEPT !.pc = "done", !.domain_participant = "empty"]
    /\ handle' = ReleaseHandle(handle)
    /\ participant' = delete_participant(handle, participant)
    /\ Log("sub", Call("release_participant", PTR, handle.ptr))
    /\ UNCHANGED <<pub, mw, count, notified, fault, matchLog, dataVars, sub_copy>>

\* ----------------------------------------- a copy of a subscriber_handle
\* subscriber_handle declares a destructor and no copy operation, so the
\* implicit copy constructor copies every member: the two shared_ptr gain an
\* owner, the raw topic / subscriber / data_reader pointers are duplicated.
sub_copy_construct ==
    /\ fault = NoFault
    /\ sub.pc = "live"
    /\ sub_copy.pc = "unborn"
    /\ sub_copy' = sub
    /\ handle' = CopyHandle(handle)
    /\ UNCHANGED <<participant, pub, sub, mw, calls, count, notified, fault, matchLog, dataVars>>

\* The copy goes out of scope: ~subscriber_handle runs on it.
sub_copy_destroy ==
    /\ fault = NoFault
    /\ sub_copy.pc = "live"
    /\ sub_copy' = [sub_copy EXCEPT !.pc = "delete_datareader"]
    /\ UNCHANGED <<participant, handle, pub, sub, mw, calls, count, notified, fault, matchLog,
                   dataVars>>

sub_copy_delete_datareader ==
    /\ fault = NoFault
    /\ sub_copy.pc = "delete_datareader"
    /\ \/ /\ sub_copy.data_reader # NULL
          /\ sub_copy.subscriber = NULL \/ Stale("container") \/ Stale("endpoint")
          /\ Fault("sub", "delete_datareader")
       \/ /\ ~(sub_copy.data_reader # NULL /\ sub_copy.subscriber = NULL)
          /\ sub_copy' = [sub_copy EXCEPT !.pc = "delete_subscriber"]
          /\ IF sub_copy.data_reader # NULL
             THEN /\ Log("sub", Call("delete_datareader", sub_copy.subscriber,
                                     sub_copy.data_reader))
                  /\ mw' = [mw EXCEPT !["sub"].endpoint = "deleted", !["sub"].listener = FALSE]
             ELSE UNCHANGED <<calls, mw>>
          /\ UNCHANGED <<participant, handle, pub, sub, count, notified, fault, matchLog,
                         dataVars>>

sub_copy_delete_subscriber ==
    /\ fault = NoFault
    /\ sub_copy.pc = "delete_subscriber"
    /\ \/ /\ sub_copy.subscriber # NULL
          /\ handle.ptr = NULL \/ Stale("container")
          /\ Fault("sub", "delete_subscriber")
       \/ /\ ~(sub_copy.subscriber # NULL /\ handle.ptr = NULL)
          /\ sub_copy' = [sub_copy EXCEPT !.pc = "delete_topic"]
          /\ IF sub_copy.subscriber # NULL
             THEN /\ Log("sub", Call("delete_subscriber", handle.ptr, sub_copy.subscriber))
                  /\ mw' = [mw EXCEPT !["sub"].container = "deleted"]
             ELSE UNCHANGED <<calls, mw>>
          /\ UNCHANGED <<participant, handle, pub, sub, count, notified, fault, matchLog,
                         dataVars>>

sub_copy_delete_topic ==
    /\ fault = NoFault
    /\ sub_copy.pc = "delete_topic"
    /\ \/ /\ sub_copy.topic # NULL
          /\ handle.ptr = NULL \/ Stale("topic")
          /\ Fault("sub", "delete_topic")
       \/ /\ ~(sub_copy.topic # NULL /\ handle.ptr = NULL)
          /\ sub_copy' = [sub_copy EXCEPT !.pc = "release_listener"]
          /\ IF sub_copy.topic # NULL
             THEN /\ Log("sub", Call("delete_topic", handle.ptr, sub_copy.topic))
                  /\ mw' = [mw EXCEPT !["sub"].topic = "deleted"]
             ELSE UNCHANGED <<calls, mw>>
          /\ UNCHANGED <<participant, handle, pub, sub, count, notified, fault, matchLog,
                         dataVars>>

\* The copy's members go: its data_listener reference, then its participant
\* reference.
sub_copy_release_listener ==
    /\ fault = NoFault
    /\ sub_copy.pc = "release_listener"
    /\ sub_copy' = [sub_copy EXCEPT !.pc = "release_participant",
                                    !.data_listener = IF @ = PTR THEN "freed" ELSE @]
    /\ UNCHANGED <<participant, handle, pub, sub, mw, calls, count, notified, fault, matchLog,
                   dataVars>>

sub_copy_release_participant ==
    /\ fault = NoFault
    /\ sub_copy.pc = "release_participant"
    /\ sub_copy' = [sub_copy EXCEPT !.pc = "done", !.domain_participant = "empty"]
    /\ handle' = ReleaseHandle(handle)
    /\ participant' = delete_participant(handle, participant)
    /\ UNCHANGED <<pub, sub, mw, calls, count, notified, fault, matchLog, dataVars>>

\* ------------------------------------------------------ listener bridges
\* What a match bridge does with one event: "true" / "false" is the value the
\* callback is invoked with, "none" is no callback.

\* Mutant: matched=true only when the count is exactly one.
on_publication_matched_first_only(current_count, current_count_change) ==
    IF current_count = 1 /\ current_count_change = current_count THEN "true"
    ELSE IF current_count = 0 /\ current_count_change < 0 THEN "false"
    ELSE "none"

\* Mutant: matched=false only when exactly one peer dropped.
on_publication_matched_last_one(current_count, current_count_change) ==
    IF current_count > 0 /\ current_count_change = current_count THEN "true"
    ELSE IF current_count = 0 /\ current_count_change = -1 THEN "false"
    ELSE "none"

\* Mutant: a callback for every change of the count.
on_publication_matched_any_change(current_count, current_count_change) ==
    IF current_count > 0 /\ current_count_change > 0 THEN "true"
    ELSE IF current_count_change < 0 THEN "false"
    ELSE "none"

\* Mutant: matched=true whenever the count is positive.
on_publication_matched_positive(current_count, current_count_change) ==
    IF current_count > 0 THEN "true"
    ELSE IF current_count = 0 /\ current_count_change < 0 THEN "false"
    ELSE "none"

\* Mutant: matched=true for every event that adds a peer.
on_publication_matched_level(current_count, current_count_change) ==
    IF current_count > 0 /\ current_count_change > 0 THEN "true"
    ELSE IF current_count = 0 /\ current_count_change < 0 THEN "false"
    ELSE "none"

\* detail::data_writer_listener::on_publication_matched
on_publication_matched(current_count, current_count_change) ==
    IF current_count > 0 /\ current_count_change = current_count THEN "true"
    ELSE IF current_count = 0 /\ current_count_change < 0 THEN "false"
    ELSE "none"

\* Mutant: the subscriber's bridge compares the change with one, not the count.
on_subscription_matched_change_one(current_count, current_count_change) ==
    IF current_count > 0 /\ current_count_change = 1 THEN "true"
    ELSE IF current_count = 0 /\ current_count_change < 0 THEN "false"
    ELSE "none"

\* Mutant: matched=true only for an event that reports one publisher.
on_subscription_matched_single(current_count, current_count_change) ==
    IF current_count = 1 /\ current_count_change = 1 THEN "true"
    ELSE IF current_count = 0 /\ current_count_change < 0 THEN "false"
    ELSE "none"

\* Mutant: the unmatched branch is missing.
on_subscription_matched_no_false(current_count, current_count_change) ==
    IF current_count > 0 /\ current_count_change = current_count THEN "true"
    ELSE "none"

\* Mutant: matched=true for every event that adds a publisher.
on_subscription_matched_each_match(current_count, current_count_change) ==
    IF current_count > 0 /\ current_count_change > 0 THEN "true"
    ELSE IF current_count = 0 /\ current_count_change < 0 THEN "false"
    ELSE "none"

\* Mutant: matched=false for every event that drops a peer.
on_subscription_matched_any_drop(current_count, current_count_change) ==
    IF current_count > 0 /\ current_count_change = current_count THEN "true"
    ELSE IF current_count_change < 0 THEN "false"
    ELSE "none"

\* functional_data_listener::on_subscription_matched
on_subscription_matched(current_count, current_count_change) ==
    IF current_count > 0 /\ current_count_change = current_count THEN "true"
    ELSE IF current_count = 0 /\ current_count_change < 0 THEN "false"
    ELSE "none"

\* The publisher the callback is handed by reference, as the callback finds it.
PubSeen ==
    [callback |-> pub.on_has_subscriber_changed_function,
     participant |-> pub.domain_participant = "held",
     topic |-> pub.topic # NULL,
     publisher |-> pub.publisher # NULL,
     data_writer |-> pub.data_writer # NULL]

\* The middleware matched or unmatched peers of the live writer and calls the
\* attached listener on its own thread with the new count and its change; the
\* bridge calls publisher.on_has_subscriber_changed_function(publisher, matched).
PubDecision(n) == on_publication_matched(n, n - count["pub"])

PublicationMatched(n) ==
    /\ fault = NoFault
    /\ mw["pub"].endpoint = "alive"
    /\ mw["pub"].listener
    /\ n # count["pub"]
    /\ count' = [count EXCEPT !["pub"] = n]
    /\ notified' = IF PubDecision(n) = "none" THEN notified
                   ELSE [notified EXCEPT
                            !["pub"] = [matched |-> PubDecision(n), seen |-> PubSeen]]

\* The same for the live reader; a listener built without a match callback
\* (on_data_function_data_listener) inherits the empty on_subscription_matched.
SubDecision(n) ==
    IF sub.on_has_publisher_changed_function
    THEN on_subscription_matched(n, n - count["sub"])
    ELSE "none"

SubscriptionMatched(n) ==
    /\ fault = NoFault
    /\ mw["sub"].endpoint = "alive"
    /\ mw["sub"].listener
    /\ n # count["sub"]
    /\ count' = [count EXCEPT !["sub"] = n]
    /\ notified' = IF SubDecision(n) = "none" THEN notified
                   ELSE [notified EXCEPT !["sub"] = [matched |-> SubDecision(n)]]

MatchEvent ==
    /\ \E n \in 0..MaxPeers : PublicationMatched(n) \/ SubscriptionMatched(n)
    /\ UNCHANGED <<participant, handle, pub, sub, mw, calls, fault, matchLog, dataVars, sub_copy>>

\* Mutant: the bridge keeps the callbacks back and delivers the newest first.
Record_newest_first(e, n, d) ==
    /\ Len(events[e]) < MaxEvents
    /\ events' = [events EXCEPT ![e] = Append(@, <<n, n - count[e]>>)]
    /\ fired' = IF d = "none" THEN fired
                ELSE [fired EXCEPT ![e] = <<[at |-> Len(events[e]) + 1, matched |-> d]>> \o @]

\* The same events with the event and the callback written down: the bridge
\* invokes the callback inside the listener call, before it returns.
Record(e, n, d) ==
    /\ Len(events[e]) < MaxEvents
    /\ events' = [events EXCEPT ![e] = Append(@, <<n, n - count[e]>>)]
    /\ fired' = IF d = "none" THEN fired
                ELSE [fired EXCEPT ![e] = Append(@, [at |-> Len(events[e]) + 1, matched |-> d])]

RecordedPublicationMatched ==
    /\ \E n \in 0..MaxPeers : PublicationMatched(n) /\ Record("pub", n, PubDecision(n))
    /\ UNCHANGED <<participant, handle, pub, sub, mw, calls, fault, dataVars, sub_copy>>

RecordedSubscriptionMatched ==
    /\ \E n \in 0..MaxPeers : SubscriptionMatched(n) /\ Record("sub", n, SubDecision(n))
    /\ UNCHANGED <<participant, handle, pub, sub, mw, calls, fault, dataVars, sub_copy>>

\* The listener called with any status the middleware may put together: the
\* bridge decides from current_count and current_count_change alone. events and
\* fired hold the call being handled and the callback it invoked.
Handle(e, c, d, decision, seen) ==
    /\ count' = [count EXCEPT ![e] = c]
    /\ events' = [events EXCEPT ![e] = <<(<<c, d>>)>>]
    /\ fired' = [fired EXCEPT ![e] = IF decision = "none" THEN <<>>
                                     ELSE <<[at |-> 1, matched |-> decision]>>]
    /\ notified' = IF decision = "none" THEN notified
                   ELSE [notified EXCEPT ![e] = seen @@ [matched |-> decision]]

on_publication_matched_call ==
    /\ fault = NoFault
    /\ mw["pub"].endpoint = "alive"
    /\ mw["pub"].listener
    /\ \E c \in 0..MaxPeers, d \in -MaxPeers..MaxPeers :
            Handle("pub", c, d, on_publication_matched(c, d), [seen |-> PubSeen])
    /\ UNCHANGED <<participant, handle, pub, sub, mw, calls, fault, dataVars, sub_copy>>

on_subscription_matched_call ==
    /\ fault = NoFault
    /\ mw["sub"].endpoint = "alive"
    /\ mw["sub"].listener
    /\ sub.on_has_publisher_changed_function
    /\ \E c \in 0..MaxPeers, d \in -MaxPeers..MaxPeers :
            Handle("sub", c, d, on_subscription_matched(c, d), <<>>)
    /\ UNCHANGED <<participant, handle, pub, sub, mw, calls, fault, dataVars, sub_copy>>

\* ------------------------------------------------------------- data path
Reliable ==
    /\ mw["pub"].reliability = "RELIABLE_RELIABILITY_QOS"
    /\ mw["sub"].reliability = "RELIABLE_RELIABILITY_QOS"

\* A BEST_EFFORT writer is incompatible with a RELIABLE reader.
Compatible(writer_kind, reader_kind) ==
    ~(writer_kind = "BEST_EFFORT_RELIABILITY_QOS" /\ reader_kind = "RELIABLE_RELIABILITY_QOS")

Sample(k) == [data |-> k, valid_data |-> TRUE]
Marker == [data |-> 0, valid_data |-> FALSE]

\* Mutant: a failed write is tried once more.
publish_retrying ==
    /\ fault = NoFault
    /\ pub.pc = "live"
    /\ IF pub.data_writer = NULL
       THEN Fault("pub", "publish")
       ELSE /\ Len(published) < MaxSamples
            /\ \E ok \in BOOLEAN, again \in BOOLEAN :
                /\ IF ok \/ again
                   THEN /\ written' = Append(written, Len(written) + 1)
                        /\ inflight' = Append(inflight, Len(written) + 1)
                   ELSE UNCHANGED <<written, inflight>>
                /\ calls' = [calls EXCEPT !["pub"] =
                                @ \o <<Call("write", pub.data_writer, ok)>>
                                  \o (IF ok THEN <<>>
                                      ELSE <<Call("write", pub.data_writer, again)>>)]
                /\ published' = Append(published, [matched |-> notified["pub"].matched,
                                                   ret |-> ok \/ again])
            /\ UNCHANGED <<participant, handle, pub, sub, mw, count, notified, fault,
                           matchLog, history, pending, extras, takes, received, sub_copy>>

\* Mutant: publish reports success whatever write returned.
publish_reports_success ==
    /\ fault = NoFault
    /\ pub.pc = "live"
    /\ IF pub.data_writer = NULL
       THEN Fault("pub", "publish")
       ELSE /\ Len(published) < MaxSamples
            /\ \E ok \in BOOLEAN :
                /\ IF ok
                   THEN /\ written' = Append(written, Len(written) + 1)
                        /\ inflight' = Append(inflight, Len(written) + 1)
                   ELSE UNCHANGED <<written, inflight>>
                /\ Log("pub", Call("write", pub.data_writer, ok))
                /\ published' = Append(published, [matched |-> notified["pub"].matched,
                                                   ret |-> TRUE])
            /\ UNCHANGED <<participant, handle, pub, sub, mw, count, notified, fault,
                           matchLog, history, pending, extras, takes, received, sub_copy>>

\* Mutant: a failed write makes publish drop its data-writer pointer.
publish_resetting_writer ==
    /\ fault = NoFault
    /\ pub.pc = "live"
    /\ IF pub.data_writer = NULL
       THEN Fault("pub", "publish")
       ELSE /\ Len(published) < MaxSamples
            /\ \E ok \in BOOLEAN :
                /\ IF ok
                   THEN /\ written' = Append(written, Len(written) + 1)
                        /\ inflight' = Append(inflight, Len(written) + 1)
                   ELSE UNCHANGED <<written, inflight>>
                /\ Log("pub", Call("write", pub.data_writer, ok))
                /\ published' = Append(published, [matched |-> notified["pub"].matched,
                                                   ret |-> ok])
                /\ pub' = IF ok THEN pub ELSE [pub EXCEPT !.data_writer = NULL]
            /\ UNCHANGED <<participant, handle, sub, mw, count, notified, fault,
                           matchLog, history, pending, extras, takes, received, sub_copy>>

\* publisher_handle::publish: return data_writer->write(&data). One write call,
\* whose result (the middleware's) is the value returned. The k-th sample
\* written carries payload k.
publish ==
    /\ fault = NoFault
    /\ pub.pc = "live"
    /\ IF pub.data_writer = NULL
       THEN Fault("pub", "publish")
       ELSE /\ Len(published) < MaxSamples
            /\ \E ok \in BOOLEAN :
                /\ IF ok
                   THEN /\ written' = Append(written, Len(written) + 1)
                        /\ inflight' = Append(inflight, Len(written) + 1)
                   ELSE UNCHANGED <<written, inflight>>
                /\ Log("pub", Call("write", pub.data_writer, ok))
                /\ published' = Append(published, [matched |-> notified["pub"].matched,
                                                   ret |-> ok])
            /\ UNCHANGED <<participant, handle, pub, sub, mw, count, notified, fault,
                           matchLog, history, pending, extras, takes, received, sub_copy>>

\* The middleware puts the next sample of a writer the reader is matched with
\* into the reader's history and raises on_data_available, or raises none when
\* one raised earlier is still unhandled.
Arrive ==
    /\ fault = NoFault
    /\ mw["sub"].endpoint = "alive"
    /\ count["sub"] > 0
    /\ inflight # <<>>
    /\ inflight' = Tail(inflight)
    /\ history' = Append(history, Sample(Head(inflight)))
    /\ \/ pending' = pending + 1
       \/ pending > 0 /\ pending' = pending
    /\ UNCHANGED <<participant, handle, pub, sub, mw, calls, count, notified, fault,
                   matchLog, written, extras, takes, received, published, sub_copy>>

\* Without RELIABLE on both sides the middleware may drop a sample.
Lose ==
    /\ fault = NoFault
    /\ ~Reliable
    /\ inflight # <<>>
    /\ inflight' = Tail(inflight)
    /\ UNCHANGED <<participant, handle, pub, sub, mw, calls, count, notified, fault,
                   matchLog, written, history, pending, extras, takes, received, published, sub_copy>>

\* The middleware buffers a sample without data (an instance state change) and
\* raises on_data_available for it.
ArriveMarker ==
    /\ fault = NoFault
    /\ mw["sub"].endpoint = "alive"
    /\ extras < MaxExtras
    /\ extras' = extras + 1
    /\ history' = Append(history, Marker)
    /\ pending' = pending + 1
    /\ UNCHANGED <<participant, handle, pub, sub, mw, calls, count, notified, fault,
                   matchLog, written, inflight, takes, received, published, sub_copy>>

\* on_data_available raised when nothing is buffered (any more).
NotifyEmpty ==
    /\ fault = NoFault
    /\ mw["sub"].endpoint = "alive"
    /\ history = <<>>
    /\ pending = 0
    /\ extras < MaxExtras
    /\ extras' = extras + 1
    /\ pending' = 1
    /\ UNCHANGED <<participant, handle, pub, sub, mw, calls, count, notified, fault,
                   matchLog, written, inflight, history, takes, received, published, sub_copy>>

\* Mutant: the sample is read and left in the reader (read_next_sample).
take_next_sample_leaving(h) ==
    IF h = <<>>
    THEN [ok |-> FALSE, sample |-> Marker, rest |-> h]
    ELSE [ok |-> TRUE, sample |-> Head(h), rest |-> h]

\* reader->take_next_sample(&data, &info): RETCODE_OK with the oldest sample
\* removed, or no sample.
take_next_sample(h) ==
    IF h = <<>>
    THEN [ok |-> FALSE, sample |-> Marker, rest |-> h]
    ELSE [ok |-> TRUE, sample |-> Head(h), rest |-> Tail(h)]

\* What one take_next_sample call yielded, as the listener sees it.
Outcome(t) == [ok |-> t.ok, valid_data |-> t.sample.valid_data, data |-> t.sample.data]

\* Mutant: one notification takes every buffered sample.
on_data_available_draining ==
    /\ fault = NoFault
    /\ mw["sub"].endpoint = "alive"
    /\ mw["sub"].listener
    /\ pending > 0
    /\ pending' = pending - 1
    /\ takes' = takes \o [i \in 1..Len(history) |->
                              [ok |-> TRUE, valid_data |-> history[i].valid_data,
                               data |-> history[i].data]]
                      \o <<Outcome(take_next_sample(<<>>))>>
    /\ history' = <<>>
    /\ received' = received \o
                       [i \in 1..Len(SelectSeq(history, LAMBDA s : s.valid_data)) |->
                           SelectSeq(history, LAMBDA s : s.valid_data)[i].data]
    /\ UNCHANGED <<participant, handle, pub, sub, mw, calls, count, notified, fault,
                   matchLog, written, inflight, extras, published, sub_copy>>

\* Mutant: the callback is invoked for every successful take, valid or not.
on_data_available_unchecked_validity ==
    /\ fault = NoFault
    /\ mw["sub"].endpoint = "alive"
    /\ mw["sub"].listener
    /\ pending > 0
    /\ pending' = pending - 1
    /\ LET t == take_next_sample(history)
       IN /\ takes' = Append(takes, Outcome(t))
          /\ history' = t.rest
          /\ received' = IF t.ok THEN Append(received, t.sample.data) ELSE received
    /\ UNCHANGED <<participant, handle, pub, sub, mw, calls, count, notified, fault,
                   matchLog, written, inflight, extras, published, sub_copy>>

\* on_data_function_data_listener::on_data_available: one take, and the data
\* callback when the take is RETCODE_OK and info.valid_data.
on_data_available ==
    /\ fault = NoFault
    /\ mw["sub"].endpoint = "alive"
    /\ mw["sub"].listener
    /\ pending > 0
    /\ pending' = pending - 1
    /\ LET t == take_next_sample(history)
       IN /\ takes' = Append(takes, Outcome(t))
          /\ history' = t.rest
          /\ received' = IF t.ok /\ t.sample.valid_data
                         THEN Append(received, t.sample.data)
                         ELSE received
    /\ UNCHANGED <<participant, handle, pub, sub, mw, calls, count, notified, fault,
                   matchLog, written, inflight, extras, published, sub_copy>>

\* --------------------------------------------------------- specification
Init ==
    /\ participant = "none"
    /\ handle = NoHandle
    /\ pub = PubUnborn
    /\ sub = SubUnborn
    /\ sub_copy = SubUnborn
    /\ mw = [e \in Endpoints |-> MwNone]
    /\ calls = [e \in Endpoints |-> <<>>]
    /\ count = [e \in Endpoints |-> 0]
    /\ notified = [e \in Endpoints |-> NoCallback]
    /\ fault = NoFault
    /\ events = [e \in Endpoints |-> <<>>]
    /\ fired = [e \in Endpoints |-> <<>>]
    /\ written = <<>>
    /\ inflight = <<>>
    /\ history = <<>>
    /\ pending = 0
    /\ extras = 0
    /\ takes = <<>>
    /\ received = <<>>
    /\ published = <<>>

Next ==
    \/ make_domain_participant
    \/ CallerRelease
    \/ make_publisher
    \/ pub_register_type
    \/ pub_create_topic
    \/ pub_create_publisher
    \/ pub_create_datawriter
    \/ pub_assign_data_writer
    \/ pub_destroy
    \/ pub_delete_datawriter
    \/ pub_delete_publisher
    \/ pub_delete_topic
    \/ pub_release_listener
    \/ pub_release_participant
    \/ make_subscriber
    \/ sub_register_type
    \/ sub_create_topic
    \/ sub_create_subscriber
    \/ sub_create_datareader
    \/ sub_assign_data_reader
    \/ sub_destroy
    \/ sub_delete_datareader
    \/ sub_delete_subscriber
    \/ sub_delete_topic
    \/ sub_release_listener
    \/ sub_release_participant
    \/ MatchEvent

Spec == Init /\ [][Next]_vars

\* ------------------------------------------- both endpoints constructed
\* The state once make_domain_participant, make_publisher and make_subscriber
\* (both with a match callback) have succeeded in every step and the caller
\* keeps no participant reference of its own.
CtorCalls(container_op, endpoint_op) ==
    <<Call("register_type", PTR, PTR), Call("create_topic", PTR, PTR),
      Call(container_op, PTR, PTR), Call(endpoint_op, PTR, PTR)>>

LiveInit(writer_kind, reader_kind, peers) ==
    /\ participant = "alive"
    /\ handle = [ptr |-> PTR, use_count |-> 2, caller |-> FALSE, deleter_calls |-> <<>>,
                 created |-> <<PTR>>]
    /\ pub = [pc |-> "live", ret |-> NULL, reliability_kind |-> writer_kind,
              domain_participant |-> "held", on_has_subscriber_changed_function |-> TRUE,
              listener |-> PTR, topic |-> PTR, publisher |-> PTR, data_writer |-> PTR]
    /\ sub = [pc |-> "live", ret |-> NULL, reliability_kind |-> reader_kind,
              domain_participant |-> "held", on_has_publisher_changed_function |-> TRUE,
              data_listener |-> PTR, topic |-> PTR, subscriber |-> PTR, data_reader |-> PTR]
    /\ mw = [e \in Endpoints |->
                [topic |-> "alive", container |-> "alive", endpoint |-> "alive",
                 listener |-> TRUE,
                 reliability |-> IF e = "pub" THEN writer_kind ELSE reader_kind]]
    /\ calls = [e \in Endpoints |->
                  IF e = "pub" THEN CtorCalls("create_publisher", "create_datawriter")
                  ELSE CtorCalls("create_subscriber", "create_datareader")]
    /\ count = [e \in Endpoints |-> peers]
    /\ notified = IF peers = 0 THEN [e \in Endpoints |-> NoCallback]
                  ELSE [e \in Endpoints |->
                          IF e = "pub" THEN [matched |-> "true", seen |-> PubSeen]
                          ELSE [matched |-> "true"]]
    /\ fault = NoFault
    /\ events = [e \in Endpoints |-> <<>>]
    /\ fired = [e \in Endpoints |-> <<>>]
    /\ written = <<>>
    /\ inflight = <<>>
    /\ history = <<>>
    /\ pending = 0
    /\ extras = 0
    /\ takes = <<>>
    /\ received = <<>>
    /\ published = <<>>
    /\ sub_copy = SubUnborn

\* Match events on constructed endpoints, every event and callback recorded.
MatchInit ==
    \E w \in ReliabilityQosPolicyKind, r \in ReliabilityQosPolicyKind : LiveInit(w, r, 0)

MatchNext == RecordedPublicationMatched \/ RecordedSubscriptionMatched

MatchSpec == MatchInit /\ [][MatchNext]_vars

\* The two bridges called with every status.
BridgeNext == on_publication_matched_call \/ on_subscription_matched_call

BridgeSpec == MatchInit /\ [][BridgeNext]_vars

\* The data path between a publisher and a subscriber matched with each other.
DataInit ==
    \E w \in ReliabilityQosPolicyKind, r \in ReliabilityQosPolicyKind :
        Compatible(w, r) /\ LiveInit(w, r, 1)

DataNext == publish \/ Arrive \/ Lose \/ ArriveMarker \/ NotifyEmpty \/ on_data_available

DataSpec == DataInit /\ [][DataNext]_vars

\* The middleware's threads keep running: a sample on its way arrives and a
\* notification raised is handled.
DataLiveSpec == DataSpec /\ WF_vars(Arrive) /\ WF_vars(on_data_available)

\* A publisher under construction, up to the create_datawriter call: the state
\* once make_domain_participant and the first three constructor steps of
\* make_publisher (with a match callback) have succeeded; its subscribers live
\* in other processes.
WriterPending(writer_kind) ==
    /\ participant = "alive"
    /\ handle = [ptr |-> PTR, use_count |-> 1, caller |-> FALSE, deleter_calls |-> <<>>,
                 created |-> <<PTR>>]
    /\ pub = [pc |-> "create_datawriter", ret |-> NULL, reliability_kind |-> writer_kind,
              domain_participant |-> "held", on_has_subscriber_changed_function |-> TRUE,
              listener |-> PTR, topic |-> PTR, publisher |-> PTR, data_writer |-> NULL]
    /\ sub = SubUnborn
    /\ mw = [e \in Endpoints |->
                IF e = "pub" THEN [MwNone EXCEPT !.topic = "alive", !.container = "alive"]
                ELSE MwNone]
    /\ calls = [e \in Endpoints |->
                  IF e = "pub"
                  THEN <<Call("register_type", PTR, PTR), Call("create_topic", PTR, PTR),
                         Call("create_publisher", PTR, PTR)>>
                  ELSE <<>>]
    /\ count = [e \in Endpoints |-> 0]
    /\ notified = [e \in Endpoints |-> NoCallback]
    /\ fault = NoFault
    /\ events = [e \in Endpoints |-> <<>>]
    /\ fired = [e \in Endpoints |-> <<>>]
    /\ written = <<>>
    /\ inflight = <<>>
    /\ history = <<>>
    /\ pending = 0
    /\ extras = 0
    /\ takes = <<>>
    /\ received = <<>>
    /\ published = <<>>
    /\ sub_copy = SubUnborn

\* The owner publishes while the middleware matches and unmatches readers.
PublishInit == \E w \in ReliabilityQosPolicyKind : WriterPending(w)

PublishNext ==
    \/ pub_create_datawriter
    \/ pub_assign_data_writer
    \/ RecordedPublicationMatched
    \/ publish

PublishSpec == PublishInit /\ [][PublishNext]_vars

\* A constructed subscriber_handle, a copy made of it, and both destroyed.
CopyInit ==
    \E w \in ReliabilityQosPolicyKind, r \in ReliabilityQosPolicyKind : LiveInit(w, r, 0)

CopyNext ==
    \/ sub_copy_construct
    \/ sub_destroy
    \/ sub_delete_datareader
    \/ sub_delete_subscriber
    \/ sub_delete_topic
    \/ sub_release_listener
    \/ sub_release_participant
    \/ sub_copy_destroy
    \/ sub_copy_delete_datareader
    \/ sub_copy_delete_subscriber
    \/ sub_copy_delete_topic
    \/ sub_copy_release_listener
    \/ sub_copy_release_participant

CopySpec == CopyInit /\ [][CopyNext]_vars

\* A publisher and a subscriber whose only matched peer is the other one. Once
\* one of them has deleted its writer / reader, the middleware's discovery
\* raises the match event with count 0, change -1 on the other, if that one's
\* reader / writer is still live with its listener.
PeerInit ==
    \E w \in ReliabilityQosPolicyKind, r \in ReliabilityQosPolicyKind :
        Compatible(w, r) /\ LiveInit(w, r, 1)

PublisherGone ==
    /\ mw["pub"].endpoint = "deleted"
    /\ count["sub"] > 0
    /\ SubscriptionMatched(0)
    /\ Record("sub", 0, SubDecision(0))
    /\ UNCHANGED <<participant, handle, pub, sub, mw, calls, fault, dataVars, sub_copy>>

SubscriberGone ==
    /\ mw["sub"].endpoint = "deleted"
    /\ count["pub"] > 0
    /\ PublicationMatched(0)
    /\ Record("pub", 0, PubDecision(0))
    /\ UNCHANGED <<participant, handle, pub, sub, mw, calls, fault, dataVars, sub_copy>>

PubTeardownStep ==
    \/ pub_delete_datawriter
    \/ pub_delete_publisher
    \/ pub_delete_topic
    \/ pub_release_listener
    \/ pub_release_participant

SubTeardownStep ==
    \/ sub_delete_datareader
    \/ sub_delete_subscriber
    \/ sub_delete_topic
    \/ sub_release_listener
    \/ sub_release_participant

PeerNext ==
    \/ pub_destroy
    \/ PubTeardownStep
    \/ sub_destroy
    \/ SubTeardownStep
    \/ PublisherGone
    \/ SubscriberGone

PeerSpec == PeerInit /\ [][PeerNext]_vars

\* A destructor that has started runs to its end, and the middleware's
\* discovery thread keeps running.
PeerLiveSpec ==
    /\ PeerSpec
    /\ WF_vars(PubTeardownStep)
    /\ WF_vars(SubTeardownStep)
    /\ WF_vars(PublisherGone)
    /\ WF_vars(SubscriberGone)

\* A publisher and a subscriber on one topic and domain, each the only
\* candidate peer of the other, from the point where each is about to create
\* its writer / reader. The middleware matches the live writer with the live
\* reader when their reliability kinds are compatible, and tells each side.
PairInit ==
    \E w \in ReliabilityQosPolicyKind, r \in ReliabilityQosPolicyKind :
        /\ participant = "alive"
        /\ handle = [ptr |-> PTR, use_count |-> 2, caller |-> FALSE, deleter_calls |-> <<>>,
                     created |-> <<PTR>>]
        /\ pub = [pc |-> "create_datawriter", ret |-> NULL, reliability_kind |-> w,
                  domain_participant |-> "held", on_has_subscriber_changed_function |-> TRUE,
                  listener |-> PTR, topic |-> PTR, publisher |-> PTR, data_writer |-> NULL]
        /\ sub = [pc |-> "create_datareader", ret |-> NULL, reliability_kind |-> r,
                  domain_participant |-> "held", on_has_publisher_changed_function |-> TRUE,
                  data_listener |-> PTR, topic |-> PTR, subscriber |-> PTR, data_reader |-> NULL]
        /\ sub_copy = SubUnborn
        /\ mw = [e \in Endpoints |-> [MwNone EXCEPT !.topic = "alive", !.container = "alive"]]
        /\ calls = [e \in Endpoints |->
                      <<Call("register_type", PTR, PTR), Call("create_topic", PTR, PTR),
                        Call(IF e = "pub" THEN "create_publisher" ELSE "create_subscriber",
                             PTR, PTR)>>]
        /\ count = [e \in Endpoints |-> 0]
        /\ notified = [e \in Endpoints |-> NoCallback]
        /\ fault = NoFault
        /\ events = [e \in Endpoints |-> <<>>]
        /\ fired = [e \in Endpoints |-> <<>>]
        /\ written = <<>>
        /\ inflight = <<>>
        /\ history = <<>>
        /\ pending = 0
        /\ extras = 0
        /\ takes = <<>>
        /\ received = <<>>
        /\ published = <<>>

Discovered ==
    /\ mw["pub"].endpoint = "alive"
    /\ mw["sub"].endpoint = "alive"
    /\ Compatible(mw["pub"].reliability, mw["sub"].reliability)

PublisherMatchesSubscriber ==
    /\ Discovered
    /\ count["pub"] = 0
    /\ events["pub"] = <<>>
    /\ PublicationMatched(1)
    /\ Record("pub", 1, PubDecision(1))
    /\ UNCHANGED <<participant, handle, pub, sub, mw, calls, fault, dataVars, sub_copy>>

SubscriberMatchesPublisher ==
    /\ Discovered
    /\ count["sub"] = 0
    /\ events["sub"] = <<>>
    /\ SubscriptionMatched(1)
    /\ Record("sub", 1, SubDecision(1))
    /\ UNCHANGED <<participant, handle, pub, sub, mw, calls, fault, dataVars, sub_copy>>

PairNext ==
    \/ pub_create_datawriter
    \/ pub_assign_data_writer
    \/ sub_create_datareader
    \/ sub_assign_data_reader
    \/ PublisherMatchesSubscriber
    \/ SubscriberMatchesPublisher
    \/ PeerNext

PairSpec == PairInit /\ [][PairNext]_vars

\* A subscriber with both callbacks, not matched yet: publishers match and
\* unmatch it while samples are written, arrive and are taken.
FlowInit ==
    \E w \in ReliabilityQosPolicyKind, r \in ReliabilityQosPolicyKind :
        Compatible(w, r) /\ LiveInit(w, r, 0)

FlowNext == RecordedSubscriptionMatched \/ DataNext

FlowSpec == FlowInit /\ [][FlowNext]_vars

\* A live subscriber and a publisher whose constructor is about to create its
\* writer, both asking for reliable delivery: construction finishes, the endpoints match, publish and receive, and
\* are destroyed, the owner's thread and the middleware's threads interleaved.
FrameInit ==
    \E w \in {"RELIABLE_RELIABILITY_QOS"}, r \in {"RELIABLE_RELIABILITY_QOS"} :
        /\ Compatible(w, r)
        /\ participant = "alive"
        /\ handle = [ptr |-> PTR, use_count |-> 2, caller |-> FALSE, deleter_calls |-> <<>>,
                     created |-> <<PTR>>]
        /\ pub = [pc |-> "create_datawriter", ret |-> NULL, reliability_kind |-> w,
                  domain_participant |-> "held", on_has_subscriber_changed_function |-> TRUE,
                  listener |-> PTR, topic |-> PTR, publisher |-> PTR, data_writer |-> NULL]
        /\ sub = [pc |-> "live", ret |-> NULL, reliability_kind |-> r,
                  domain_participant |-> "held", on_has_publisher_changed_function |-> TRUE,
                  data_listener |-> PTR, topic |-> PTR, subscriber |-> PTR, data_reader |-> PTR]
        /\ mw = [e \in Endpoints |->
                    IF e = "pub"
                    THEN [MwNone EXCEPT !.topic = "alive", !.container = "alive"]
                    ELSE [topic |-> "alive", container |-> "alive", endpoint |-> "alive",
                          listener |-> TRUE, reliability |-> r]]
        /\ calls = [e \in Endpoints |->
                      IF e = "pub"
                      THEN <<Call("register_type", PTR, PTR), Call("create_topic", PTR, PTR),
                             Call("create_publisher", PTR, PTR)>>
                      ELSE CtorCalls("create_subscriber", "create_datareader")]
        /\ count = [e \in Endpoints |-> 0]
        /\ notified = [e \in Endpoints |-> NoCallback]
        /\ fault = NoFault
        /\ events = [e \in Endpoints |-> <<>>]
        /\ fired = [e \in Endpoints |-> <<>>]
        /\ written = <<>>
        /\ inflight = <<>>
        /\ history = <<>>
        /\ pending = 0
        /\ extras = 0
        /\ takes = <<>>
        /\ received = <<>>
        /\ published = <<>>
        /\ sub_copy = SubUnborn

FrameNext ==
    \/ pub_create_datawriter
    \/ pub_assign_data_writer
    \/ MatchEvent
    \/ publish
    \/ Arrive
    \/ on_data_available
    \/ pub_destroy
    \/ pub_delete_datawriter
    \/ pub_delete_publisher
    \/ pub_delete_topic
    \/ pub_release_listener
    \/ pub_release_participant
    \/ sub_destroy
    \/ sub_delete_datareader
    \/ sub_delete_subscriber
    \/ sub_delete_topic
    \/ sub_release_listener
    \/ sub_release_participant

FrameSpec == FrameInit /\ [][FrameNext]_vars

\* ================================================================ claims
IsPrefix(s, t) == Len(s) <= Len(t) /\ \A i \in 1..Len(s) : s[i] = t[i]

Ops(e) == [i \in 1..Len(calls[e]) |-> calls[e][i].op]

DeleteOps ==
    {"delete_datawriter", "delete_publisher", "delete_datareader", "delete_subscriber",
     "delete_topic"}

IsTeardownOp(o) == o \in DeleteOps \cup {"release_participant"}

Teardown(e) == SelectSeq(Ops(e), IsTeardownOp)

\* ---- C1
Seq0121 == <<(<<1, 1>>), (<<2, 1>>), (<<1, -1>>), (<<0, -1>>)>>

FiredAfter0121(k) ==
    IF k = 0 THEN <<>>
    ELSE IF k < 4 THEN <<[at |-> 1, matched |-> "true"]>>
    ELSE <<[at |-> 1, matched |-> "true"], [at |-> 4, matched |-> "false"]>>

\* C1: on either endpoint, along the events 0->1->2->1->0 (changes +1, +1, -1,
\* -1) the only callbacks are matched=true at the first event and matched=false
\* at the fourth; the second and third events invoke nothing.
C1_OneTrueOneFalse ==
    \A e \in Endpoints :
        IsPrefix(events[e], Seq0121) => fired[e] = FiredAfter0121(Len(events[e]))

C1_Witness == events["pub"] = Seq0121 /\ events["sub"] = Seq0121

\* ---- C2
PrevCount(e, i) == IF i = 1 THEN 0 ELSE events[e][i - 1][1]

RisingEdges(e) ==
    {i \in 1..Len(events[e]) : PrevCount(e, i) = 0 /\ events[e][i][1] > 0}

FallingEdges(e) ==
    {i \in 1..Len(events[e]) : PrevCount(e, i) > 0 /\ events[e][i][1] = 0}

FiredAt(e, v) == {fired[e][j].at : j \in {k \in 1..Len(fired[e]) : fired[e][k].matched = v}}

LastFired(e) == fired[e] # <<>> /\ fired[e][Len(fired[e])].matched = "true"

\* C2: after any sequence of events whose change is the new count minus the
\* previous one, the last callback's value (false when there was none) says
\* whether the count is positive, matched=true was invoked at exactly the
\* 0->positive events and matched=false at exactly the positive->0 events, once each.
C2_CallbacksFollowEdges ==
    \A e \in Endpoints :
        /\ LastFired(e) = (count[e] > 0)
        /\ (notified[e].matched = "true") = (count[e] > 0)
        /\ FiredAt(e, "true") = RisingEdges(e)
        /\ FiredAt(e, "false") = FallingEdges(e)
        /\ Len(fired[e]) = Cardinality(RisingEdges(e)) + Cardinality(FallingEdges(e))

C2_Witness ==
    /\ Cardinality(RisingEdges("sub")) = 2
    /\ Cardinality(FallingEdges("sub")) = 1
    /\ \E i \in 1..Len(events["sub"]) : events["sub"][i][1] = 2 /\ events["sub"][i][2] = 2
    /\ Len(events["pub"]) = MaxEvents

\* ---- C3
Delivered(k) == \E i \in 1..Len(received) : received[i] = k

Written(k) == \E i \in 1..Len(written) : written[i] = k

\* C3: every sample a matched RELIABLE publisher wrote to a RELIABLE subscriber
\* eventually reaches the data callback with its payload, also when one
\* notification was raised for several buffered samples.
C3_EverySampleDelivered ==
    \A k \in 1..MaxSamples : (Reliable /\ Written(k)) ~> Delivered(k)

\* ---- C4
PubTeardownOrder ==
    <<"delete_datawriter", "delete_publisher", "delete_topic", "release_participant">>

\* C4: a publisher's teardown issues delete_datawriter, delete_publisher,
\* delete_topic and then releases the participant, in this order; the container
\* or the topic is never deleted before the writer.
C4_PublisherTeardownOrder ==
    /\ pub.data_writer # NULL => IsPrefix(Teardown("pub"), PubTeardownOrder)
    /\ (pub.data_writer # NULL /\ pub.pc = "done") => Teardown("pub") = PubTeardownOrder
    /\ \A i, j \in 1..Len(calls["pub"]) :
          (Ops("pub")[i] \in {"delete_publisher", "delete_topic", "release_participant"}
             /\ Ops("pub")[j] = "delete_datawriter") => j < i

C4_Witness == pub.pc = "done" /\ pub.data_writer # NULL /\ Teardown("pub") = PubTeardownOrder

\* ---- C5
SubTeardownOrder ==
    <<"delete_datareader", "delete_subscriber", "delete_topic", "release_participant">>

\* C5: a subscriber's teardown issues delete_datareader, delete_subscriber,
\* delete_topic and then releases the participant, in this order.
C5_SubscriberTeardownOrder ==
    /\ sub.data_reader # NULL => IsPrefix(Teardown("sub"), SubTeardownOrder)
    /\ (sub.data_reader # NULL /\ sub.pc = "done") => Teardown("sub") = SubTeardownOrder
    /\ \A i, j \in 1..Len(calls["sub"]) :
          (Ops("sub")[i] = "release_participant" /\ Ops("sub")[j] \in DeleteOps) => j < i

C5_Witness == sub.pc = "done" /\ sub.data_reader # NULL /\ Teardown("sub") = SubTeardownOrder

\* ---- C6
Busy(o) == o.pc \notin {"unborn", "done"}

\* C6: the participant is never deleted while a publisher or subscriber built
\* with it has not finished its destruction, nor while one of their entities lives.
C6_ParticipantOutlivesEndpoints ==
    participant = "deleted" =>
        /\ ~Busy(pub)
        /\ ~Busy(sub)
        /\ \A e \in Endpoints :
              "alive" \notin {mw[e].topic, mw[e].container, mw[e].endpoint}

C6_Witness ==
    /\ participant = "deleted"
    /\ pub.pc = "done" /\ pub.data_writer # NULL
    /\ sub.pc = "done" /\ sub.data_reader # NULL

\* ---- C7
\* C7: after writer (reader) creation failed with topic and container created,
\* teardown issues no delete for the writer (reader), deletes the container and
\* the topic, and does not fault; a delete is only ever issued for an entity
\* whose create returned a valid pointer.
C7_PartialTeardown ==
    /\ (pub.pc = "done" /\ pub.topic # NULL /\ pub.publisher # NULL /\ pub.data_writer = NULL)
          => /\ Teardown("pub") = <<"delete_publisher", "delete_topic", "release_participant">>
             /\ mw["pub"].container = "deleted" /\ mw["pub"].topic = "deleted"
    /\ (sub.pc = "done" /\ sub.topic # NULL /\ sub.subscriber # NULL /\ sub.data_reader = NULL)
          => /\ Teardown("sub") = <<"delete_subscriber", "delete_topic", "release_participant">>
             /\ mw["sub"].container = "deleted" /\ mw["sub"].topic = "deleted"
    /\ \A e \in Endpoints : \A i \in 1..Len(calls[e]) :
          calls[e][i].op \in DeleteOps => calls[e][i].arg # NULL /\ calls[e][i].on # NULL
    /\ fault.at \notin DeleteOps

C7_Witness ==
    /\ pub.pc = "done" /\ pub.topic # NULL /\ pub.publisher # NULL /\ pub.data_writer = NULL
    /\ sub.pc = "done" /\ sub.topic # NULL /\ sub.subscriber # NULL /\ sub.data_reader = NULL

\* ---- C8
\* C8: whichever creation step fails, construction performs no operation on or
\* with the invalid entity and the process does not fault.
C8_FailedCreationIsSafe ==
    /\ fault = NoFault
    /\ \A e \in Endpoints : \A i \in 1..Len(calls[e]) :
          calls[e][i].on # NULL /\ calls[e][i].arg # NULL

\* ---- C9
\* C9: whenever the publisher's match callback is invoked, the publisher it is
\* handed has its callback, participant, topic, container and data_writer set.
C9_CallbackSeesConstructedPublisher ==
    notified["pub"].matched # "none" =>
        /\ notified["pub"].seen.callback
        /\ notified["pub"].seen.participant
        /\ notified["pub"].seen.topic
        /\ notified["pub"].seen.publisher
        /\ notified["pub"].seen.data_writer

\* ---- C10
ListenerOf(e) == IF e = "pub" THEN pub.listener ELSE sub.data_listener

\* C10: a listener the middleware holds for a live writer/reader has not been
\* released, and once a listener is released the entity it was attached to is gone.
C10_ListenerOutlivesEntity ==
    \A e \in Endpoints :
        /\ mw[e].listener => ListenerOf(e) = PTR /\ mw[e].endpoint = "alive"
        /\ ListenerOf(e) = "freed" => mw[e].endpoint # "alive"

C10_Witness ==
    /\ pub.listener = "freed" /\ mw["pub"].endpoint = "deleted"
    /\ sub.data_listener = "freed" /\ mw["sub"].endpoint = "deleted"

\* ---------------------------------------------------------------- C11
Writes == SelectSeq(calls["pub"], LAMBDA c : c.op = "write")

\* C11: every publish call on a publisher holding a data-writer issued exactly
\* one write on that data-writer and returned the boolean that write returned;
\* on a publisher never matched a false write result came back as false, with
\* no second write and no fault.
C11_PublishForwardsWrite ==
    /\ Len(Writes) = Len(published)
    /\ \A i \in 1..Len(published) :
        /\ Writes[i].on = pub.data_writer
        /\ published[i].ret = Writes[i].arg
    /\ pub.data_writer # NULL => fault.at # "publish"

C11_Witness ==
    /\ events["pub"] = <<>>
    /\ Len(published) = 2
    /\ published[1].ret = FALSE
    /\ published[2].ret = TRUE
    /\ fault = NoFault

\* ---------------------------------------------------------------- C12
Owners ==
    (IF handle.caller THEN 1 ELSE 0)
    + (IF pub.domain_participant = "held" THEN 1 ELSE 0)
    + (IF sub.domain_participant = "held" THEN 1 ELSE 0)
    + (IF sub_copy.domain_participant = "held" THEN 1 ELSE 0)

\* C12: a participant that make_domain_participant created is deleted exactly
\* once, by the delete_participant deleter, exactly when its last owner (the
\* caller's reference or an endpoint holding it) has released it, and never
\* while an owner remains.
C12_DeletedOnceByLastOwner ==
    handle.ptr # NULL =>
        /\ handle.use_count = Owners
        /\ (participant = "deleted") <=> (Owners = 0)
        /\ (participant = "alive") <=> (Owners > 0)
        /\ handle.deleter_calls = IF Owners = 0 THEN <<handle.ptr>> ELSE <<>>

C12_Witness ==
    /\ participant = "deleted"
    /\ handle.deleter_calls = <<PTR>>
    /\ pub.pc = "done"
    /\ sub.pc = "done"
    /\ ~handle.caller

\* ---------------------------------------------------------------- C13
\* C13: make_domain_participant calls create_participant exactly once and
\* hands the caller what that call returned: when the factory could not create
\* the participant the caller gets a null handle and no second attempt was made.
C13_NullHandleAfterOneAttempt ==
    handle # NoHandle =>
        /\ Len(handle.created) = 1
        /\ handle.ptr = handle.created[1]
        /\ handle.created[1] = NULL => participant = "none"

C13_Witness ==
    /\ handle.created = <<NULL>>
    /\ handle.ptr = NULL
    /\ handle.caller
    /\ participant = "none"

\* ---------------------------------------------------------------- C14
Holds(o, f) == o.pc \notin {"unborn", "done"} /\ o[f] # NULL

TimesIssued(e, op) == Len(SelectSeq(calls[e], LAMBDA c : c.op = op))

\* C14: no two endpoint objects, a copy of a subscriber_handle included, hold
\* the same topic, subscriber container or reader, and no entity is deleted
\* more than once.
C14_ExclusiveOwnership ==
    /\ \A f \in {"topic", "subscriber", "data_reader"} :
            ~(Holds(sub, f) /\ Holds(sub_copy, f))
    /\ \A e \in Endpoints : \A op \in DeleteOps : TimesIssued(e, op) <= 1

\* ---------------------------------------------------------------- C15
\* The subscriber's events when two publishers matched it and none unmatched:
\* one event per publisher, or both matches in one event.
TwoPublishersMatched ==
    events["sub"] \in {<<(<<1, 1>>), (<<2, 1>>)>>, <<(<<2, 2>>)>>}

\* C15: once two publishers have matched one subscriber and neither has
\* unmatched, the subscriber's match callback has been invoked exactly once,
\* with matched=true, at the first event, whether the matches came as two
\* events or as one.
C15_TwoPublishersOneTrue ==
    TwoPublishersMatched => fired["sub"] = <<[at |-> 1, matched |-> "true"]>>

C15_Witness ==
    /\ events["sub"] = <<(<<1, 1>>), (<<2, 1>>)>>
    /\ count["sub"] = 2
    /\ fired["sub"] = <<[at |-> 1, matched |-> "true"]>>

\* ---------------------------------------------------------------- C16
FalseOnce(e) == fired[e] = <<[at |-> 1, matched |-> "false"]>>

\* C16: when the only matched peer of an endpoint is destroyed while the
\* endpoint stays alive, the endpoint's match callback is eventually invoked
\* with matched=false, and never more than once; a teardown that started
\* completes, and no teardown faults.
C16_PeerDestroyedReportsFalseOnce ==
    /\ [](fault = NoFault)
    /\ [](\A e \in Endpoints : fired[e] = <<>> \/ FalseOnce(e))
    /\ (mw["pub"].endpoint = "deleted") ~> (FalseOnce("sub") \/ sub.pc # "live")
    /\ (mw["sub"].endpoint = "deleted") ~> (FalseOnce("pub") \/ pub.pc # "live")
    /\ (pub.pc = "delete_datawriter") ~> (pub.pc = "done")
    /\ (sub.pc = "delete_datareader") ~> (sub.pc = "done")

C16_Witness ==
    /\ pub.pc = "done"
    /\ sub.pc = "live"
    /\ FalseOnce("sub")
    /\ notified["sub"].matched = "false"
    /\ fired["pub"] = <<>>

\* ---------------------------------------------------------------- C17
Mismatched ==
    /\ pub.reliability_kind = "BEST_EFFORT_RELIABILITY_QOS"
    /\ sub.reliability_kind = "RELIABLE_RELIABILITY_QOS"

EverTrue(e) == \E i \in 1..Len(fired[e]) : fired[e][i].matched = "true"

\* C17: a publisher made with BEST_EFFORT and a subscriber made with RELIABLE
\* never have their match callback invoked with matched=true.
C17_MismatchNeverMatches ==
    Mismatched => \A e \in Endpoints : ~EverTrue(e) /\ notified[e].matched # "true"

C17_Witness ==
    /\ Mismatched
    /\ pub.pc = "live" /\ pub.data_writer # NULL
    /\ sub.pc = "live" /\ sub.data_reader # NULL
    /\ \A e \in Endpoints : events[e] = <<>>

\* ---------------------------------------------------------------- C18
\* What an event <<count, change>> qualifies for.
Qualifies(ev) ==
    IF ev[1] > 0 /\ ev[2] = ev[1] THEN "true"
    ELSE IF ev[1] = 0 /\ ev[2] < 0 THEN "false"
    ELSE "none"

Indexed(e) ==
    [i \in 1..Len(events[e]) |-> [at |-> i, matched |-> Qualifies(events[e][i])]]

\* C18: on each endpoint the callbacks invoked so far are, in order, exactly
\* the qualifying ones among the events raised so far: every callback is
\* invoked while its event is handled, none is kept back, queued or reordered.
C18_CallbacksInEventOrder ==
    \A e \in Endpoints :
        fired[e] = SelectSeq(Indexed(e), LAMBDA c : c.matched # "none")

C18_Witness ==
    /\ Len(events["pub"]) = 4
    /\ Len(fired["pub"]) = 3
    /\ fired["pub"][1].matched = "true"
    /\ fired["pub"][2].matched = "false"
    /\ fired["pub"][3].matched = "true"
    /\ Len(events["sub"]) = 3
    /\ Len(fired["sub"]) = 2

\* ---------------------------------------------------------------- C19
\* The publish calls made on a RELIABLE publisher while its last match
\* callback was matched=true.
MatchedReliableCalls ==
    {i \in 1..Len(published) :
        /\ pub.reliability_kind = "RELIABLE_RELIABILITY_QOS"
        /\ published[i].matched = "true"}

Handled(e) == events[e][1]

Invoked(e, v) == fired[e] = <<[at |-> 1, matched |-> v]>>

\* C21: for every status (count, change) a bridge is called with, it invokes
\* the callback with matched=true if and only if count > 0 and change = count,
\* a count of more than one included.
C21_TrueIffZeroToPositive ==
    \A e \in Endpoints :
        events[e] # <<>> =>
            (Invoked(e, "true") <=> (Handled(e)[1] > 0 /\ Handled(e)[2] = Handled(e)[1]))

C21_Witness ==
    /\ events["pub"] = <<(<<2, 2>>)>>
    /\ Invoked("pub", "true")
    /\ events["sub"] = <<(<<2, 1>>)>>
    /\ fired["sub"] = <<>>

\* ---------------------------------------------------------------- C22
\* C22: for every status (count, change) a bridge is called with, it invokes
\* the callback with matched=false if and only if count = 0 and change < 0,
\* several peers dropping in one event included.
C22_FalseIffDropToZero ==
    \A e \in Endpoints :
        events[e] # <<>> =>
            (Invoked(e, "false") <=> (Handled(e)[1] = 0 /\ Handled(e)[2] < 0))

C22_Witness ==
    /\ events["pub"] = <<(<<0, -2>>)>>
    /\ Invoked("pub", "false")
    /\ events["sub"] = <<(<<1, -1>>)>>
    /\ fired["sub"] = <<>>

\* ---------------------------------------------------------------- C23
\* A status whose count is positive and was positive before the change, or
\* whose count is zero with a change that is not negative.
NoEdge(ev) ==
    \/ ev[1] > 0 /\ ev[1] - ev[2] > 0
    \/ ev[1] = 0 /\ ev[2] >= 0

\* C23: a further peer matching, one of several peers dropping, and a status
\* with count 0 and change >= 0 invoke no callback.
C23_NoCallbackWithoutEdge ==
    \A e \in Endpoints :
        (events[e] # <<>> /\ NoEdge(Handled(e))) => fired[e] = <<>>

C23_Witness ==
    /\ events["pub"] = <<(<<1, -1>>)>>
    /\ fired["pub"] = <<>>
    /\ events["sub"] = <<(<<0, 0>>)>>
    /\ fired["sub"] = <<>>
    /\ notified["pub"].matched = "true"

\* ---------------------------------------------------------------- C24
\* C24: on each endpoint, for events whose change is the difference of
\* successive counts, the first callback invoked is matched=true and no two
\* consecutive callbacks carry the same value.
C24_CallbacksAlternate ==
    \A e \in Endpoints :
        /\ fired[e] # <<>> => fired[e][1].matched = "true"
        /\ \A j \in 1..(Len(fired[e]) - 1) : fired[e][j].matched # fired[e][j + 1].matched

C24_Witness ==
    /\ Len(events["sub"]) = 4
    /\ Len(fired["sub"]) = 2
    /\ fired["sub"][2].matched = "false"
    /\ Len(fired["pub"]) = 4
    /\ fired["pub"][4].matched = "false"

\* ---------------------------------------------------------------- C28
\* C28: called with the same status (count, change), the subscriber's bridge
\* and the publisher's bridge decide the same: both matched=true, both
\* matched=false, or both no callback.
C28_BridgesDecideAlike ==
    (events["pub"] # <<>> /\ events["pub"] = events["sub"]) => fired["pub"] = fired["sub"]

C28_Witness ==
    /\ events["pub"] = <<(<<2, 2>>)>>
    /\ events["sub"] = <<(<<2, 2>>)>>
    /\ Invoked("pub", "true")
    /\ Invoked("sub", "true")

\* ---------------------------------------------------------------- C25
\* C25: handling one data-available notification makes exactly one take,
\* removes at most one sample from the reader and invokes the data callback
\* at most once, however many samples are buffered.
C25_OneTakePerNotification ==
    [][pending' < pending =>
          /\ Len(takes') = Len(takes) + 1
          /\ Len(history') >= Len(history) - 1
          /\ Len(received') <= Len(received) + 1]_vars

C25_Witness ==
    /\ Len(takes) = 1
    /\ received = <<1>>
    /\ history = <<Sample(2)>>
    /\ pending = 0

\* ---------------------------------------------------------------- C26
Forwarded == SelectSeq(takes, LAMBDA t : t.ok /\ t.valid_data)

\* C26: the data callback has been invoked exactly for the takes that
\* reported success with a valid sample, with that sample's payload; a failed
\* take or an invalid sample invoked nothing and raised no fault, and samples
\* taken afterwards are still delivered.
C26_CallbackIffTakenAndValid ==
    /\ received = [i \in 1..Len(Forwarded) |-> Forwarded[i].data]
    /\ fault = NoFault

C26_Witness ==
    /\ Len(takes) = 2
    /\ ~takes[1].ok
    /\ takes[2].ok /\ takes[2].valid_data
    /\ received = <<1>>

\* ---------------------------------------------------------------- C27
CtorOrder(e) ==
    IF e = "pub"
    THEN <<"register_type", "create_topic", "create_publisher", "create_datawriter">>
    ELSE <<"register_type", "create_topic", "create_subscriber", "create_datareader">>

CtorOps(e) == SelectSeq(Ops(e), LAMBDA o : \E i \in 1..4 : CtorOrder(e)[i] = o)

Issued(e, o) == \E i \in 1..Len(calls[e]) : calls[e][i].op = o

\* C27: a constructor calls the middleware in the order register type, create
\* topic, create container, create writer / reader, and makes a call only if
\* the step before it succeeded: no container is created without a topic and
\* no writer / reader without a container and a topic.
C27_ConstructionInOrderWhileSucceeding ==
    /\ \A e \in Endpoints : IsPrefix(CtorOps(e), CtorOrder(e))
    /\ Issued("pub", "create_publisher") => pub.topic # NULL
    /\ Issued("pub", "create_datawriter") => pub.topic # NULL /\ pub.publisher # NULL
    /\ Issued("sub", "create_subscriber") => sub.topic # NULL
    /\ Issued("sub", "create_datareader") => sub.topic # NULL /\ sub.subscriber # NULL

\* ---------------------------------------------------------------- C29
\* C29: a publisher made without a match callback has no listener and attaches
\* none to its writer; a subscriber made without a match callback attaches its
\* data listener to the reader all the same; for neither is a match callback
\* ever invoked, whatever match events the middleware raises.
C29_NoCallbackWithoutMatchFunction ==
    /\ ~pub.on_has_subscriber_changed_function =>
            /\ pub.listener = NULL
            /\ ~mw["pub"].listener
            /\ notified["pub"] = NoCallback
    /\ ~sub.on_has_publisher_changed_function => notified["sub"] = NoCallback
    /\ mw["sub"].endpoint = "alive" => mw["sub"].listener /\ sub.data_listener = PTR

C29_Witness ==
    /\ pub.pc = "live" /\ pub.data_writer # NULL
    /\ ~pub.on_has_subscriber_changed_function
    /\ sub.pc = "live" /\ sub.data_reader # NULL
    /\ ~sub.on_has_publisher_changed_function
    /\ count["sub"] > 0
    /\ mw["sub"].listener
    /\ \A e \in Endpoints : notified[e] = NoCallback

\* ---------------------------------------------------------------- C30
\* The destructor of the endpoint has been entered (or has finished).
Destroying(h) ==
    h.pc \in {"delete_datawriter", "delete_datareader", "delete_publisher",
              "delete_subscriber", "delete_topic", "release_listener",
              "release_participant", "done"}

EndpointHandle(e) == IF e = "pub" THEN pub ELSE sub

\* C30: once the destructor of an endpoint has been entered, no match callback
\* of that endpoint is invoked any more, whatever the interleaving of the
\* destroying thread with the middleware's event threads.
C30_NoCallbackOnceDestructionStarted ==
    [][\A e \in Endpoints :
          notified'[e] # notified[e] => ~Destroying(EndpointHandle(e))]_vars

\* ---------------------------------------------------------------- C31
\* C31: the factory's delete_participant is only ever invoked with a participant
\* that create_participant returned: the deleter is never run on the null
\* pointer a failed make_domain_participant wrapped.
C31_DeleteOnlyCreatedParticipant ==
    \A i \in 1..Len(handle.deleter_calls) :
        /\ handle.deleter_calls[i] # NULL
        /\ \E j \in 1..Len(handle.created) : handle.created[j] = handle.deleter_calls[i]

\* ---------------------------------------------------------------- C32
\* The constructor of e created its topic, container and writer / reader.
FullyBuilt(e) ==
    /\ handle.ptr # NULL
    /\ EndpointHandle(e).topic # NULL
    /\ IF e = "pub" THEN pub.publisher # NULL /\ pub.data_writer # NULL
                    ELSE sub.subscriber # NULL /\ sub.data_reader # NULL

TeardownOrder(e) == IF e = "pub" THEN PubTeardownOrder ELSE SubTeardownOrder

Buffered ==
    LET valid == SelectSeq(history, LAMBDA s : s.valid_data)
    IN [i \in 1..Len(valid) |-> valid[i].data]

\* C33: with notifications handled one at a time, the payloads handed to the
\* data callback, followed by those still buffered, are in the order the reader
\* buffered them (the order written, samples being numbered as written) with
\* none twice: a delivered sample is no longer in the reader and is never
\* delivered again, and no later sample overtakes an earlier one.
C33_DeliveredInBufferOrderOnce ==
    LET s == received \o Buffered
    IN /\ \A i, j \in 1..Len(s) : i < j => s[i] < s[j]
       /\ \A i \in 1..Len(s) : s[i] \in 1..Len(written)

C33_Witness ==
    /\ received = <<1, 2>>
    /\ history = <<>>
    /\ \E i, j \in 1..Len(takes) :
          /\ i < j
          /\ takes[i].ok /\ takes[i].valid_data /\ takes[i].data = 1
          /\ takes[j].ok /\ takes[j].valid_data /\ takes[j].data = 2

\* ---------------------------------------------------------------- C34
\* The members of an endpoint that name its entities, and the middleware's
\* entities behind them.
Entities(e) ==
    <<EndpointHandle(e).domain_participant,
      EndpointHandle(e).topic,
      IF e = "pub" THEN pub.publisher ELSE sub.subscriber,
      IF e = "pub" THEN pub.data_writer ELSE sub.data_reader,
      ListenerOf(e),
      mw[e].topic, mw[e].container, mw[e].endpoint, mw[e].listener>>

\* C34: a step in which publish ran, a match listener was called or the data
\* listener was called leaves the participant reference, topic, container,
\* writer / reader and listener of both endpoints, and the participant handle,
\* as they were; these change only in a step of the endpoint's constructor or
\* destructor.
C34_PublishAndCallbacksKeepEntities ==
    [][/\ (published' # published \/ count' # count \/ notified' # notified
            \/ takes' # takes \/ received' # received)
          => /\ \A e \in Endpoints : Entities(e)' = Entities(e)
             /\ handle' = handle
             /\ participant' = participant
       /\ \A e \in Endpoints :
            Entities(e)' # Entities(e) => EndpointHandle(e)'.pc # EndpointHandle(e).pc]_vars

C34_Witness ==
    /\ published # <<>>
    /\ received # <<>>
    /\ notified["pub"].matched = "true"
    /\ notified["sub"].matched = "true"
    /\ pub.pc = "live" /\ sub.pc = "live"
    /\ Entities("pub") = <<"held", PTR, PTR, PTR, PTR, "alive", "alive", "alive", TRUE>>
    /\ Entities("sub") = <<"held", PTR, PTR, PTR, PTR, "alive", "alive", "alive", TRUE>>
====
